---- MODULE Spec2Model ----
(***************************************************************************)
(* InceptionTimeRegressor (sktime_dl/deeplearning/inceptiontime/           *)
(* _regressor.py): two estimator instances, the callback lists they refer  *)
(* to, and the keras models their build_model and fit calls create.        *)
(*                                                                         *)
(* Python values are encoded by type: a list reference is a list id        *)
(* (NoList for None), a model reference is a model id (NoModel when no     *)
(* model is attached), batch_size is an integer (NoBatch for None), a      *)
(* shape is a tuple of integers (<<>> when the attribute is not set).      *)
(***************************************************************************)
EXTENDS Integers, Sequences, FiniteSets

VARIABLES obj, lists, models, supplied, prepared, last

vars == <<obj, lists, models, supplied, prepared, last>>

----------------------------------------------------------------------------
(* Bounds of the model *)

MaxCallbacks == 1
MaxCalls == 2
MaxInstanceSteps == 2
InstanceStep == 80

(* Program constants *)

DefaultBatchSize == 64
DefaultDepth == 6
BatchDivisor == 10
BatchCap == 16
BatchFloor == 1

----------------------------------------------------------------------------
(* Encodings *)

Estimators == {1, 2}
NoList == 0
NoModel == 0
NoBatch == -1
CallerList == 1
OwnList(e) == 1 + e
ListIds == {CallerList} \cup {OwnList(e) : e \in Estimators}

SeqsUpTo(S, k) == UNION {[1..i -> S] : i \in 0..k}

CallbackSeqs == SeqsUpTo({"Custom", "UserReduceLR"}, MaxCallbacks)

(* Instance counts on both sides of a multiple of BatchDivisor *)
Instances == {InstanceStep * k + r : k \in 0..MaxInstanceSteps, r \in {0, BatchDivisor - 1}}

(* X as given to fit: tabular, [n_instances, n_columns], or a tensor        *)
(* (instances, time steps, channels)                                        *)
RawShapes ==
    {<<n, 3>> : n \in Instances} \cup {<<n, 3, 1>> : n \in Instances}
    \cup {<<n, 2, 2>> : n \in Instances}

Inputs == [malformed : BOOLEAN, shape : RawShapes]

(* The hyperparameters the two estimators are constructed with: the         *)
(* defaults, and a shallow network without residual connections             *)
HyperParams ==
    [e \in Estimators |->
        IF e = 1 THEN [depth |-> DefaultDepth, use_residual |-> TRUE]
                 ELSE [depth |-> 1, use_residual |-> FALSE]]

Min(a, b) == IF a < b THEN a ELSE b
Max(a, b) == IF a > b THEN a ELSE b

----------------------------------------------------------------------------
(* keras.callbacks.ReduceLROnPlateau(monitor="loss", factor=0.5,            *)
(* patience=50, min_lr=0.0001), the default from the literature             *)
reduce_lr == "DefaultReduceLR"

(* isinstance(callback, keras.callbacks.ReduceLROnPlateau) *)
isinstance_ReduceLROnPlateau(callback) ==
    callback \in {"UserReduceLR", "DefaultReduceLR"}

(* any(isinstance(callback, ReduceLROnPlateau) for callback in callbacks) *)
always_missing_ReduceLROnPlateau(callbacks) == FALSE

any_ReduceLROnPlateau(callbacks) ==
    \E i \in 1..Len(callbacks) : isinstance_ReduceLROnPlateau(callbacks[i])


----------------------------------------------------------------------------
(* The state a call works on: the estimator it is called on (e, self), the  *)
(* heap (lists, models), what the call did (log), how it ended (outcome)    *)
(* and what it returned (ret).                                              *)

NoHistory == [model |-> NoModel, batch_size |-> NoBatch, callbacks |-> <<>>]

Event(ev, model, trained) == [ev |-> ev, model |-> model, trained |-> trained]

Enter(e) ==
    [e |-> e, self |-> obj[e], lists |-> lists, models |-> models,
     log |-> <<>>, outcome |-> "ok", ret |-> 0]

Raise(w, stage) == [w EXCEPT !.outcome = stage, !.ret = 0]

(* InceptionTimeNetwork.build_network: depth inception modules, a residual  *)
(* shortcut when use_residual, global average pooling                       *)
build_network(input_shape, hp) ==
    [input_layer |-> input_shape,
     output_layer |->
        [i \in 1..hp.depth |-> "InceptionModule"]
        \o (IF hp.use_residual THEN <<"Shortcut">> ELSE <<>>)
        \o <<"GlobalAveragePooling1D">>]

(* keras.layers.Dense(units=1)(output_layer) *)
dense_output(output_layer) == Append(output_layer, "Dense(units=1)")

(* keras.models.Model(inputs, outputs) and model.compile(...) *)
compile_absolute_error(input_layer, output_layer) ==
    [input_shape |-> input_layer, layers |-> output_layer,
     loss |-> "mean_absolute_error", optimizer |-> "Adam",
     metrics |-> <<"mean_squared_error">>, trained |-> FALSE, saved |-> FALSE]

compile_model(input_layer, output_layer) ==
    [input_shape |-> input_layer, layers |-> output_layer,
     loss |-> "mean_squared_error", optimizer |-> "Adam",
     metrics |-> <<"mean_squared_error">>, trained |-> FALSE, saved |-> FALSE]

(* if self.callbacks is None: self.callbacks = [] *)
ensure_callbacks(w) ==
    IF w.self.callbacks = NoList
    THEN [w EXCEPT !.self.callbacks = OwnList(w.e), !.lists[OwnList(w.e)] = <<>>]
    ELSE w

(* if not any(...): self.callbacks.append(reduce_lr) *)
append_default(w) ==
    IF ~any_ReduceLROnPlateau(w.lists[w.self.callbacks])
    THEN [w EXCEPT !.lists[w.self.callbacks] = Append(@, reduce_lr)]
    ELSE w

(* build_model(self, input_shape): fault = "build" when build_network, the  *)
(* Dense layer or compile raises                                           *)
build_model(w, input_shape, fault) ==
    IF fault = "build"
    THEN Raise(w, "build_raised")
    ELSE LET net == build_network(input_shape, w.self.hp)
             model == compile_model(net.input_layer, dense_output(net.output_layer))
             id == Len(w.models) + 1
             w1 == [w EXCEPT !.models = Append(@, model),
                             !.log = Append(@, Event("build", id, FALSE))]
         IN [append_default(ensure_callbacks(w1)) EXCEPT !.ret = id]

(* check_and_clean_data(X, y, input_checks): rejects malformed input when   *)
(* input_checks; the cleaned X is (instances, time steps, channels), a      *)
(* tabular X getting one channel                                            *)
rejects(X, input_checks) == input_checks /\ X.malformed

check_and_clean_data(X) ==
    IF Len(X.shape) = 2 THEN [X EXCEPT !.shape = Append(@, 1)] ELSE X

(* self.input_shape = X.shape[1:] *)
whole_shape(X) == X.shape

instance_shape(X) == Tail(X.shape)

(* self.batch_size = int(max(1, min(X.shape[0] / 10, 16))) when None; the   *)
(* quotient is kept as the numerator n over BatchDivisor until int()        *)
unclamped_batch_size(batch_size, n) ==
    IF batch_size = NoBatch
    THEN Min(n, BatchCap * BatchDivisor) \div BatchDivisor
    ELSE batch_size

resolve_batch_size(batch_size, n) ==
    IF batch_size = NoBatch
    THEN Max(BatchFloor * BatchDivisor, Min(n, BatchCap * BatchDivisor))
            \div BatchDivisor
    ELSE batch_size

(* self.model = <the model build_model returned> *)
keep_attached_model(self, built) ==
    IF self.model = NoModel THEN [self EXCEPT !.model = built] ELSE self

attach_model(self, built) == [self EXCEPT !.model = built]

(* self.history = self.model.fit(X, y, batch_size, epochs, verbose,         *)
(* callbacks): fault = "train" when training raises                         *)
train_model(w, fault) ==
    IF fault = "train"
    THEN Raise(w, "train_raised")
    ELSE [w EXCEPT !.models[w.self.model].trained = TRUE,
                   !.log = Append(@, Event("train", w.self.model, TRUE)),
                   !.self.history =
                        [model |-> w.self.model,
                         batch_size |-> w.self.batch_size,
                         callbacks |-> w.lists[w.self.callbacks]]]

(* BaseDeepRegressor.save_trained_model(self): fault = "save" when it       *)
(* raises                                                                   *)
save_trained_model(w, fault) ==
    LET m == w.self.model
        w1 == [w EXCEPT !.log = Append(@, Event("save", m, w.models[m].trained))]
    IN IF fault = "save"
       THEN Raise(w1, "save_raised")
       ELSE [w1 EXCEPT !.models[m].saved = TRUE]

(* self.is_fitted = True *)
leave_unfitted(w) == w

mark_fitted(w) ==
    [w EXCEPT !.self.is_fitted = TRUE,
              !.log = Append(@, Event("fitted", w.self.model, w.models[w.self.model].trained))]

(* self.save_trained_model(); self.is_fitted = True; return self *)
finish_marked_first(w, fault) ==
    LET w1 == save_trained_model(mark_fitted(w), fault)
    IN IF w1.outcome # "ok" THEN w1 ELSE [w1 EXCEPT !.ret = w.e]

fit_finish(w, fault) ==
    LET w1 == save_trained_model(w, fault)
    IN IF w1.outcome # "ok" THEN w1 ELSE [mark_fitted(w1) EXCEPT !.ret = w.e]

(* fit from self.input_shape = X.shape[1:] on, X being the cleaned data;    *)
(* self.model.summary() under verbose prints and changes nothing            *)
fit_checked(w, X, fault) ==
    LET w1 == [w EXCEPT !.self.input_shape = instance_shape(X)]
        w2 == [w1 EXCEPT !.self.batch_size = resolve_batch_size(@, X.shape[1])]
        w3 == build_model(w2, w2.self.input_shape, fault)
    IN IF w3.outcome # "ok" THEN w3
       ELSE LET w4 == [w3 EXCEPT !.self = attach_model(@, w3.ret)]
                w5 == train_model(w4, fault)
            IN IF w5.outcome # "ok" THEN w5 ELSE fit_finish(w5, fault)

(* fit(self, X, y, input_checks) *)
fit_shape_before_check(w, X, input_checks, fault) ==
    LET w1 == [w EXCEPT !.self.input_shape = Tail(X.shape)]
    IN IF rejects(X, input_checks)
       THEN Raise(w1, "rejected")
       ELSE fit_checked(w, check_and_clean_data(X), fault)

fit(w, X, input_checks, fault) ==
    IF rejects(X, input_checks)
    THEN Raise(w, "rejected")
    ELSE fit_checked(w, check_and_clean_data(X), fault)

----------------------------------------------------------------------------
(* What the last call was, for the properties: op, the estimator, how it    *)
(* ended, what it returned, the shape of one instance of the cleaned X      *)
(* (<<>> when there is none), the instance count the call read (X.shape[0]  *)
(* is read only when batch_size is None; -1 otherwise), the estimator's     *)
(* batch_size and model and whether build_model had reached its callbacks   *)
(* before the call, the number of models before the call, the call's log,   *)
(* and how many calls there have been.                                      *)

Record(op, w, shape) ==
    [op |-> op, e |-> w.e, outcome |-> w.outcome, ret |-> w.ret,
     shape |-> IF shape = <<>> THEN <<>> ELSE Tail(shape),
     n |-> IF shape # <<>> /\ obj[w.e].batch_size = NoBatch THEN shape[1] ELSE -1,
     batch_before |-> obj[w.e].batch_size,
     model_before |-> obj[w.e].model,
     prepared_before |-> w.e \in prepared,
     models_before |-> Len(models), log |-> w.log, calls |-> last.calls + 1]

Commit(op, w, shape) ==
    /\ obj' = [obj EXCEPT ![w.e] = w.self]
    /\ lists' = w.lists
    /\ models' = w.models
    /\ prepared' = (IF \E i \in 1..Len(w.log) : w.log[i].ev = "build"
                    THEN prepared \cup {w.e} ELSE prepared)
    /\ last' = Record(op, w, shape)
    /\ UNCHANGED supplied

InstanceShapes == {instance_shape(check_and_clean_data(X)) : X \in Inputs}

BuildModel(e, input_shape, fault) ==
    /\ last.calls < MaxCalls
    /\ Commit("build_model", build_model(Enter(e), input_shape, fault), <<>>)

Fit(e, X, input_checks, fault) ==
    /\ last.calls < MaxCalls
    /\ LET w == fit(Enter(e), X, input_checks, fault)
       IN Commit("fit", w,
                 IF w.outcome = "rejected" THEN <<>> ELSE check_and_clean_data(X).shape)

(* __init__ of both estimators: cbs is the caller's list, args[e] the       *)
(* callbacks and batch_size arguments of estimator e                        *)
Construct(cbs, args) ==
    /\ obj = [e \in Estimators |->
                [hp |-> HyperParams[e],
                 batch_size |-> args[e].batch_size,
                 callbacks |-> args[e].callbacks,
                 input_shape |-> <<>>,
                 model |-> NoModel,
                 history |-> NoHistory,
                 is_fitted |-> FALSE]]
    /\ lists = [l \in ListIds |-> IF l = CallerList THEN cbs ELSE <<>>]
    /\ supplied = [e \in Estimators |->
                     IF args[e].callbacks = NoList THEN <<>> ELSE cbs]
    /\ models = <<>>
    /\ prepared = {}
    /\ last = [op |-> "init", e |-> 0, outcome |-> "ok", ret |-> 0, shape |-> <<>>,
               n |-> -1, batch_before |-> NoBatch, model_before |-> NoModel,
               prepared_before |-> FALSE, models_before |-> 0, log |-> <<>>, calls |-> 0]

(* Both estimators keep the default batch_size; each is given None or the   *)
(* caller's list as callbacks                                               *)
Init ==
    \E cbs \in CallbackSeqs :
       \E args \in [Estimators -> [callbacks : {NoList, CallerList},
                                   batch_size : {DefaultBatchSize}]] :
          Construct(cbs, args)

(* Estimator 1 is constructed with batch_size=None, estimator 2 with the    *)
(* default; both with callbacks=None                                        *)
InitBatch ==
    Construct(<<>>, [e \in Estimators |->
                       [callbacks |-> NoList,
                        batch_size |-> IF e = 1 THEN NoBatch ELSE DefaultBatchSize]])

Faults == {"none", "build", "train", "save"}

(* The inputs of a fit call on e, up to what the call reads of them:        *)
(* X.shape[0] is read only where batch_size is None, so with a batch_size   *)
(* set one instance count stands for all                                    *)
InputsRead(e) ==
    {X \in Inputs : obj[e].batch_size = NoBatch \/ X.shape[1] = 0}

Next ==
    \/ \E e \in Estimators, s \in InstanceShapes, f \in {"none", "build"} :
          BuildModel(e, s, f)
    \/ \E e \in Estimators :
          \E X \in InputsRead(e), c \in BOOLEAN, f \in Faults : Fit(e, X, c, f)

Spec == Init /\ [][Next]_vars

SpecBatch == InitBatch /\ [][Next]_vars

----------------------------------------------------------------------------
(* Properties *)

Kinds(log) == [i \in 1..Len(log) |-> log[i].ev]
Has(log, ev) == \E i \in 1..Len(log) : log[i].ev = ev
Count(log, ev) == Cardinality({i \in 1..Len(log) : log[i].ev = ev})

NewCall == last'.calls # last.calls
FitPassed == last.op = "fit" /\ last.outcome # "rejected"
FitBuilt == last.op = "fit" /\ last.outcome \notin {"rejected", "build_raised"}
FitTrained == last.op = "fit" /\ last.outcome \in {"save_raised", "ok"}
FitOk == last.op = "fit" /\ last.outcome = "ok"

SuppliedReduceLR(e) ==
    \E i \in 1..Len(supplied[e]) : isinstance_ReduceLROnPlateau(supplied[e][i])

ExpectedCallbacks(e) ==
    IF SuppliedReduceLR(e) THEN supplied[e] ELSE Append(supplied[e], "DefaultReduceLR")

(* C1: once build_model has reached its callbacks on an estimator (directly *)
(* or through fit), the estimator's callbacks list is the caller-supplied   *)
(* callbacks in their order, followed by exactly one default                *)
(* ReduceLROnPlateau when the caller supplied none (also for                *)
(* callbacks=None) and by nothing when the caller supplied one; further     *)
(* calls add no second default.                                             *)
C1_DefaultCallbackOnce ==
    \A e \in prepared :
        /\ obj[e].callbacks # NoList
        /\ lists[obj[e].callbacks] = ExpectedCallbacks(e)

C1_Witness ==
    /\ last.calls >= 2
    /\ last.prepared_before
    /\ Has(last.log, "build")
    /\ ~SuppliedReduceLR(last.e)
    /\ Len(supplied[last.e]) = MaxCallbacks
    /\ lists[obj[last.e].callbacks] = Append(supplied[last.e], "DefaultReduceLR")

C3_Step ==
    /\ (FitPassed => obj[last.e].input_shape = last.shape)'
    /\ (FitBuilt => models[obj[last.e].model].input_shape = obj[last.e].input_shape)'
    /\ \A e \in Estimators :
          (last'.op = "build_model" \/ last'.e # e) =>
             obj'[e].input_shape = obj[e].input_shape

C4_FitReturnsTrainedSelf ==
    FitOk =>
        LET m == obj[last.e].model
        IN /\ last.ret = last.e
           /\ m > last.models_before
           /\ \E i \in 1..Len(last.log) : last.log[i] = Event("train", m, TRUE)
           /\ models[m].trained
           /\ obj[last.e].history.model = m
           /\ obj[last.e].history.batch_size = obj[last.e].batch_size
           /\ obj[last.e].is_fitted

C4_Witness ==
    /\ FitOk
    /\ last.ret = last.e
    /\ obj[last.e].is_fitted
    /\ obj[last.e].history.model = obj[last.e].model

(* C5: a fit call builds the model, trains it, passes it to                 *)
(* save_trained_model and only then sets is_fitted: a call that finishes    *)
(* training invokes save_trained_model exactly once, on the trained model   *)
(* of that call, and a call that does not finish training never invokes     *)
(* it; a call in which building, training or saving raises leaves           *)
(* is_fitted as it was.                                                     *)
C5_Step ==
    (NewCall /\ last'.op = "fit") =>
        LET log == last'.log
            e == last'.e
        IN /\ last'.outcome = "ok" =>
                 Kinds(log) = <<"build", "train", "save", "fitted">>
           /\ last'.outcome = "save_raised" =>
                 Kinds(log) = <<"build", "train", "save">>
           /\ last'.outcome = "train_raised" => Kinds(log) = <<"build">>
           /\ last'.outcome \in {"rejected", "build_raised"} => log = <<>>
           /\ \A i \in 1..Len(log) :
                 /\ log[i].model = Len(models) + 1
                 /\ log[i].ev \in {"save", "fitted"} => log[i].trained
           /\ last'.outcome # "ok" => obj'[e].is_fitted = obj[e].is_fitted
           /\ last'.outcome = "ok" => obj'[e].is_fitted

C5_LifecycleOrder == [][C5_Step]_vars

C5_Witness ==
    /\ last.op = "fit"
    /\ last.outcome = "save_raised"
    /\ Count(last.log, "save") = 1
    /\ models[obj[last.e].model].trained
    /\ ~obj[last.e].is_fitted

(* C6: calls on one estimator leave every field of the other estimator,     *)
(* and the contents of the other's callbacks list, unchanged.               *)
C6_Step ==
    \A e \in Estimators :
        (NewCall /\ last'.e # e) =>
            /\ obj'[e] = obj[e]
            /\ obj[e].callbacks # NoList =>
                  lists'[obj[e].callbacks] = lists[obj[e].callbacks]

C6_NoSharedState == [][C6_Step]_vars

(* C7: a fit call whose input check rejects X, y raises without building,   *)
(* training or saving, and leaves every estimator field, every callbacks    *)
(* list and every model as it was.                                          *)
C7_Step ==
    (NewCall /\ last'.op = "fit" /\ last'.outcome = "rejected") =>
        /\ obj' = obj
        /\ lists' = lists
        /\ models' = models
        /\ prepared' = prepared
        /\ last'.log = <<>>
        /\ last'.ret = 0

C7_RejectedFitChangesNothing == [][C7_Step]_vars

C7_Witness ==
    /\ last.op = "fit"
    /\ last.outcome = "rejected"
    /\ obj[last.e].is_fitted
    /\ obj[last.e].input_shape # <<>>

(* C8: every model build_model creates, and so every model fit attaches,    *)
(* is the network output with one Dense(units=1) layer on top, compiled     *)
(* with loss mean_squared_error, metric mean_squared_error and Adam.        *)
C8_CompiledForRegression ==
    /\ \A i \in 1..Len(models) :
        LET m == models[i]
        IN /\ m.loss = "mean_squared_error"
           /\ m.metrics = <<"mean_squared_error">>
           /\ m.optimizer = "Adam"
           /\ Len(m.layers) >= 2
           /\ m.layers[Len(m.layers)] = "Dense(units=1)"
           /\ \A j \in 1..(Len(m.layers) - 1) : m.layers[j] # "Dense(units=1)"
    /\ \A k \in 1..Len(last.log) :
          last.log[k].ev = "build" =>
             LET m == models[last.log[k].model]
             IN m.layers =
                   Append(build_network(m.input_shape, obj[last.e].hp).output_layer,
                          "Dense(units=1)")

C8_Witness ==
    /\ FitOk
    /\ Len(models) = 2
    /\ models[1].input_shape # models[2].input_shape
    /\ models[obj[last.e].model].loss = "mean_squared_error"

(* C9: a fit call that passes the input check with batch_size None and n    *)
(* instances sets batch_size to max(1, min(floor(n / 10), 16)), a value in  *)
(* 1..16; with batch_size not None it leaves the field as it is; training   *)
(* uses the field's value; and once batch_size is not None no call changes  *)
(* it.                                                                      *)
C9_Step ==
    /\ (FitPassed =>
          /\ last.batch_before = NoBatch =>
                /\ obj[last.e].batch_size = Max(1, Min(last.n \div 10, 16))
                /\ obj[last.e].batch_size \in 1..16
          /\ last.batch_before # NoBatch =>
                obj[last.e].batch_size = last.batch_before
          /\ FitTrained =>
                obj[last.e].history.batch_size = obj[last.e].batch_size)'
    /\ \A e \in Estimators :
          obj[e].batch_size # NoBatch => obj'[e].batch_size = obj[e].batch_size

C9_BatchSizeResolution == [][C9_Step]_vars

C9_Witness ==
    /\ FitOk
    /\ last.batch_before \in 1..16
    /\ obj[last.e].batch_size = last.batch_before
    /\ obj[last.e].history.batch_size = last.batch_before

(* C10: is_fitted is True only if the attached model has completed training *)
(* and has been passed to save_trained_model.                               *)
C10_FittedMeansTrainedAndSaved ==
    \A e \in Estimators :
        obj[e].is_fitted =>
            /\ obj[e].model # NoModel
            /\ models[obj[e].model].trained
            /\ models[obj[e].model].saved

====
